---- MODULE Spec2Model ----
(***************************************************************************)
(* Two programs of davetang/learning_rust:                                 *)
(*                                                                         *)
(*   echor          src/eg/echor.rs, an echo clone whose command line is   *)
(*                  parsed by clap 2.33 (App::get_matches) and whose       *)
(*                  output is one print! of the joined text;               *)
(*   guessing_game  src/guessing_game/src/main.rs, the read / parse /      *)
(*                  compare loop of the Rust book.                         *)
(*                                                                         *)
(* A string is a sequence of one-character strings, so that joining,       *)
(* trimming, parsing and formatting are computed character by character.   *)
(* Each program has its own specification (SpecEchor, SpecGame); the       *)
(* variables of the other program stay at their initial value.             *)
(***************************************************************************)
EXTENDS Integers, Sequences, FiniteSets, TLC

VARIABLES
    args,           \* echor: the argument tokens after the program name
    state,          \* echor: "Parsing", "Emitting", "Done", "Failed", "Displayed", "Panicked"
    text,           \* echor: `text`, the Vec<String> of line 40 (<<>> before it is bound)
    omit_newline,   \* echor: `omit_newline`, the bool of line 41
    stdout,         \* echor: the characters written to standard output
    stderr,         \* echor: the characters written to standard error
    exit_status,    \* echor: the process exit status, None while it runs
    stdout_writes,  \* echor: how many writes to standard output were made
    secret_number,  \* game: `secret_number`
    pc,             \* game: position in main
    guess_line,     \* game: `guess`, the String buffer read_line fills
    guess,          \* game: `guess`, the u32 of line 50 (two 16-bit limbs)
    out,            \* game: the lines printed so far
    reads           \* game: how many lines were read so far

evars == <<args, state, text, omit_newline, stdout, stderr, exit_status, stdout_writes>>
gvars == <<secret_number, pc, guess_line, guess, out, reads>>
vars == <<args, state, text, omit_newline, stdout, stderr, exit_status, stdout_writes,
          secret_number, pc, guess_line, guess, out, reads>>

(***************************************************************************)
(* Bounds of the model.                                                    *)
(***************************************************************************)
MaxArgs == 3
MaxReads == 3

(***************************************************************************)
(* Strings.                                                                *)
(***************************************************************************)
StartsWith(s, p) == Len(s) >= Len(p) /\ SubSeq(s, 1, Len(p)) = p

Contains(s, sub) ==
    \E i \in 1..(Len(s) - Len(sub) + 1) : SubSeq(s, i, i + Len(sub) - 1) = sub

\* Option<T>: None is the empty tuple, Some(v) the tuple of v alone
None == <<>>
Some(v) == <<v>>
Unwrap(o) == o[1]

\* A byte sequence that is not valid UTF-8, and what from_utf8_lossy puts for it.
InvalidByte == "0xFF"
ReplacementChar == "U+FFFD"

(***************************************************************************)
(* echor: the argument definitions handed to clap (lines 12-31).           *)
(***************************************************************************)
ShortN == "n"
LongOmitNewline == <<"o", "m", "i", "t", "_", "n", "e", "w", "l", "i", "n", "e">>
\* the flags clap 2 adds to every App: -h/--help, and -V/--version once a
\* version is set (line 13)
ShortHelp == "h"
LongHelp == <<"h", "e", "l", "p">>
ShortVersion == "V"
LongVersion == <<"v", "e", "r", "s", "i", "o", "n">>

\* what clap writes; every error of clap 2 carries the usage string
ErrorMessage ==
    <<"e", "r", "r", "o", "r", "\n", "U", "S", "A", "G", "E", ":", " ",
      "e", "c", "h", "o", "r", " ", "[", "F", "L", "A", "G", "S", "]", " ",
      "<", "T", "E", "X", "T", ">", ".", ".", ".", "\n">>
HelpMessage ==
    <<"e", "c", "h", "o", "r", " ", "0", ".", "1", ".", "0", "\n",
      "U", "S", "A", "G", "E", ":", " ",
      "e", "c", "h", "o", "r", " ", "[", "F", "L", "A", "G", "S", "]", " ",
      "<", "T", "E", "X", "T", ">", ".", ".", ".", "\n">>
VersionMessage == <<"e", "c", "h", "o", "r", " ", "0", ".", "1", ".", "0", "\n">>

(***************************************************************************)
(* The argument tokens the model draws from.                               *)
(***************************************************************************)
TokN == <<"-", ShortN>>
TokOmitNewline == <<"-", "-">> \o LongOmitNewline
TokH == <<"-", ShortHelp>>
TokHelp == <<"-", "-">> \o LongHelp
TokV == <<"-", ShortVersion>>
TokVersion == <<"-", "-">> \o LongVersion
TokDashDash == <<"-", "-">>
Tokens ==
    { <<"a">>,                      \* plain text
      <<"b", " ", " ", "c">>,       \* text with a run of spaces inside
      <<>>,                         \* the empty string
      <<"-">>,                      \* a lone dash
      <<InvalidByte>>,              \* text that is not valid UTF-8
      TokN, TokOmitNewline,
      <<"-", ShortN, ShortN>>,      \* the short flag twice in one token
      TokH, TokHelp, TokV, TokVersion,
      <<"-", "x">>,                 \* a short flag echor does not define
      <<"-", "-", "x">>,            \* a long flag echor does not define
      TokDashDash }
ArgLists == UNION { [1..n -> Tokens] : n \in 0..MaxArgs }

(***************************************************************************)
(* clap 2.33, App::get_matches, for the two arguments echor defines.       *)
(* The parse state: `trailing` (a "--" was seen), `vals` (the values of    *)
(* the positional "text"), `occurs` (occurrences of "omit_newline") and    *)
(* `outcome`: "run" while parsing, else "help", "version" or "error".      *)
(***************************************************************************)
RECURSIVE TrimLeftDashes(_)
TrimLeftDashes(s) ==
    IF s # <<>> /\ Head(s) = "-" THEN TrimLeftDashes(Tail(s)) ELSE s

\* the variant that takes every dash-led token, the lone "-" too, for an argument
IsNewArgAnyDash(tok) == StartsWith(tok, <<"-">>)

\* "--x" always starts a new argument, "-x" does, a lone "-" is a value
IsNewArg(tok) ==
    IF StartsWith(tok, <<"-", "-">>) THEN TRUE
    ELSE IF StartsWith(tok, <<"-">>) THEN Len(tok) # 1
    ELSE FALSE

\* the variant whose long flag is spelt omit-newline
ParseLongArgHyphen(tok, st) ==
    LET name == TrimLeftDashes(tok) IN
    IF name = LongHelp THEN [st EXCEPT !.outcome = "help"]
    ELSE IF name = LongVersion THEN [st EXCEPT !.outcome = "version"]
    ELSE IF name = <<"o", "m", "i", "t", "-", "n", "e", "w", "l", "i", "n", "e">>
         THEN [st EXCEPT !.occurs = @ + 1]
    ELSE [st EXCEPT !.outcome = "error"]

ParseLongArg(tok, st) ==
    LET name == TrimLeftDashes(tok) IN
    IF name = LongHelp THEN [st EXCEPT !.outcome = "help"]
    ELSE IF name = LongVersion THEN [st EXCEPT !.outcome = "version"]
    ELSE IF name = LongOmitNewline THEN [st EXCEPT !.occurs = @ + 1]
    ELSE [st EXCEPT !.outcome = "error"]

\* a short token is a cluster: every character after the dash is a flag
RECURSIVE ParseShortChars(_, _)
ParseShortChars(cs, st) ==
    IF cs = <<>> THEN st
    ELSE IF Head(cs) = ShortHelp THEN [st EXCEPT !.outcome = "help"]
    ELSE IF Head(cs) = ShortVersion THEN [st EXCEPT !.outcome = "version"]
    ELSE IF Head(cs) = ShortN
         THEN ParseShortChars(Tail(cs), [st EXCEPT !.occurs = @ + 1])
    ELSE [st EXCEPT !.outcome = "error"]

ParseShortArg(tok, st) == ParseShortChars(TrimLeftDashes(tok), st)

\* the variant that stops looking for flags at the first positional value
ParseTokenPosix(tok, st) ==
    IF ~st.trailing /\ st.vals = <<>> /\ tok = TokDashDash
    THEN [st EXCEPT !.trailing = TRUE]
    ELSE IF ~st.trailing /\ st.vals = <<>> /\ IsNewArg(tok)
         THEN IF StartsWith(tok, <<"-", "-">>) THEN ParseLongArg(tok, st)
              ELSE ParseShortArg(tok, st)
    ELSE [st EXCEPT !.vals = Append(@, tok)]

ParseToken(tok, st) ==
    IF ~st.trailing /\ tok = TokDashDash THEN [st EXCEPT !.trailing = TRUE]
    ELSE IF ~st.trailing /\ IsNewArg(tok)
         THEN IF StartsWith(tok, <<"-", "-">>) THEN ParseLongArg(tok, st)
              ELSE ParseShortArg(tok, st)
    ELSE [st EXCEPT !.vals = Append(@, tok)]

RECURSIVE ParseTokens(_, _)
ParseTokens(toks, st) ==
    IF toks = <<>> \/ st.outcome # "run" THEN st
    ELSE ParseTokens(Tail(toks), ParseToken(Head(toks), st))

\* the variant without .required(true)
MissingRequiredNone(st) == FALSE

\* .required(true) on "text" (line 21)
MissingRequired(st) == st.vals = <<>>

\* the variant where the flag may be repeated, as with .multiple(true)
UnexpectedMultipleUsageNever(st) == FALSE

\* "omit_newline" is not .multiple(true): a second occurrence is an error
UnexpectedMultipleUsage(st) == st.occurs > 1

Validate(st) ==
    IF st.outcome # "run" THEN st
    ELSE IF MissingRequired(st) \/ UnexpectedMultipleUsage(st)
         THEN [st EXCEPT !.outcome = "error"]
    ELSE [st EXCEPT !.outcome = "ok"]

GetMatches(argv) ==
    Validate(ParseTokens(argv,
        [trailing |-> FALSE, vals |-> <<>>, occurs |-> 0, outcome |-> "run"]))

(***************************************************************************)
(* ArgMatches::values_of_lossy and ::is_present (lines 40-41).             *)
(***************************************************************************)

ToStringLossy(tok) ==
    [i \in 1..Len(tok) |-> IF tok[i] = InvalidByte THEN ReplacementChar ELSE tok[i]]

ValuesOfLossy(m) ==
    IF m.vals = <<>> THEN None
    ELSE Some([i \in 1..Len(m.vals) |-> ToStringLossy(m.vals[i])])

IsPresent(m) == m.occurs > 0

(***************************************************************************)
(* [String]::join (line 45).                                               *)
(***************************************************************************)
RECURSIVE Join(_, _)
Join(segs, sep) ==
    IF segs = <<>> THEN <<>>
    ELSE IF Len(segs) = 1 THEN Head(segs)
    ELSE Head(segs) \o sep \o Join(Tail(segs), sep)

Separator == <<" ">>

\* the variant that never ends the line
LineEndNever(omit) == <<>>

\* if omit_newline { "" } else { "\n" }
LineEnd(omit) == IF omit THEN <<>> ELSE <<"\n">>

(***************************************************************************)
(* echor: the process.                                                     *)
(***************************************************************************)
\* exit_status is None while the process runs, Some(status) once it ended
ExitSuccess == 0
ExitUsage == 1
ExitPanic == 101

GameIdle ==
    /\ secret_number = 0
    /\ pc = "idle"
    /\ guess_line = <<>>
    /\ guess = <<0, 0>>
    /\ out = <<>>
    /\ reads = 0

InitEchor ==
    /\ args \in ArgLists
    /\ state = "Parsing"
    /\ text = <<>>
    /\ omit_newline = FALSE
    /\ stdout = <<>>
    /\ stderr = <<>>
    /\ exit_status = None
    /\ stdout_writes = 0
    /\ GameIdle

\* get_matches returns; lines 40-41 bind text and omit_newline
ParseOk ==
    /\ state = "Parsing"
    /\ GetMatches(args).outcome = "ok"
    /\ LET m == GetMatches(args) IN
       IF ValuesOfLossy(m) = None
       THEN /\ state' = "Panicked"
            /\ exit_status' = Some(ExitPanic)
            /\ UNCHANGED <<text, omit_newline>>
       ELSE /\ state' = "Emitting"
            /\ text' = Unwrap(ValuesOfLossy(m))
            /\ omit_newline' = IsPresent(m)
            /\ UNCHANGED exit_status
    /\ UNCHANGED <<args, stdout, stderr, stdout_writes>>
    /\ UNCHANGED gvars

\* the variant that prints the error on stdout
ParseErrorOnStdout ==
    /\ state = "Parsing"
    /\ GetMatches(args).outcome = "error"
    /\ state' = "Failed"
    /\ stdout' = ErrorMessage
    /\ stdout_writes' = stdout_writes + 1
    /\ exit_status' = Some(ExitUsage)
    /\ UNCHANGED <<args, text, omit_newline, stderr>>
    /\ UNCHANGED gvars

\* get_matches ends the process: the error and the usage on stderr, status 1
ParseError ==
    /\ state = "Parsing"
    /\ GetMatches(args).outcome = "error"
    /\ state' = "Failed"
    /\ stderr' = ErrorMessage
    /\ exit_status' = Some(ExitUsage)
    /\ UNCHANGED <<args, text, omit_newline, stdout, stdout_writes>>
    /\ UNCHANGED gvars

\* get_matches ends the process: the help on stdout, status 0
ParseHelp ==
    /\ state = "Parsing"
    /\ GetMatches(args).outcome = "help"
    /\ state' = "Displayed"
    /\ stdout' = HelpMessage
    /\ stdout_writes' = stdout_writes + 1
    /\ exit_status' = Some(ExitSuccess)
    /\ UNCHANGED <<args, text, omit_newline, stderr>>
    /\ UNCHANGED gvars

\* get_matches ends the process: the version on stdout, status 0
ParseVersion ==
    /\ state = "Parsing"
    /\ GetMatches(args).outcome = "version"
    /\ state' = "Displayed"
    /\ stdout' = VersionMessage
    /\ stdout_writes' = stdout_writes + 1
    /\ exit_status' = Some(ExitSuccess)
    /\ UNCHANGED <<args, text, omit_newline, stderr>>
    /\ UNCHANGED gvars

\* the variant that prints and does not leave
EmitNoExit ==
    /\ state = "Emitting"
    /\ stdout_writes < 2
    /\ stdout' = stdout \o Join(text, Separator) \o LineEnd(omit_newline)
    /\ stdout_writes' = stdout_writes + 1
    /\ UNCHANGED <<args, state, text, omit_newline, stderr, exit_status>>
    /\ UNCHANGED gvars

\* the print! of line 45, then main returns
Emit ==
    /\ state = "Emitting"
    /\ stdout' = stdout \o Join(text, Separator) \o LineEnd(omit_newline)
    /\ stdout_writes' = stdout_writes + 1
    /\ state' = "Done"
    /\ exit_status' = Some(ExitSuccess)
    /\ UNCHANGED <<args, text, omit_newline, stderr>>
    /\ UNCHANGED gvars

NextEchor == ParseOk \/ ParseError \/ ParseHelp \/ ParseVersion \/ Emit

SpecEchor == InitEchor /\ [][NextEchor]_vars

(***************************************************************************)
(* guessing_game: u32 arithmetic.  A u32 is <<hi, lo>>, two 16-bit limbs,  *)
(* so that 32-bit overflow is computed and never assumed away.             *)
(***************************************************************************)
LimbBase == 65536
ToU32(n) == <<n \div LimbBase, n % LimbBase>>

DecimalDigits == <<"0", "1", "2", "3", "4", "5", "6", "7", "8", "9">>
IsDigit(c) == \E d \in 1..10 : DecimalDigits[d] = c
DigitValue(c) == (CHOOSE d \in 1..10 : DecimalDigits[d] = c) - 1

\* checked_mul(10) then checked_add(d): None on overflow
CheckedMulAdd(v, d) ==
    LET lo == v[2] * 10 + d
        hi == v[1] * 10 + (lo \div LimbBase)
    IN IF hi >= LimbBase THEN None ELSE Some(<<hi, lo % LimbBase>>)

RECURSIVE ParseDigits(_, _)
ParseDigits(cs, acc) ==
    IF cs = <<>> THEN Some(acc)
    ELSE IF ~IsDigit(Head(cs)) THEN None
    ELSE LET next == CheckedMulAdd(acc, DigitValue(Head(cs))) IN
         IF next = None THEN None ELSE ParseDigits(Tail(cs), Unwrap(next))

\* the variant that takes the empty string for zero
ParseU32EmptyZero(s) ==
    IF s = <<>> THEN Some(<<0, 0>>)
    ELSE IF Len(s) = 1 /\ Head(s) \in {"+", "-"} THEN None
    ELSE IF Head(s) = "+" THEN ParseDigits(Tail(s), <<0, 0>>)
    ELSE ParseDigits(s, <<0, 0>>)

\* str::parse::<u32>: an optional "+", then decimal digits; no "-" for an
\* unsigned type; Err (None) on anything else and on overflow
ParseU32(s) ==
    IF s = <<>> THEN None
    ELSE IF Len(s) = 1 /\ Head(s) \in {"+", "-"} THEN None
    ELSE IF Head(s) = "+" THEN ParseDigits(Tail(s), <<0, 0>>)
    ELSE ParseDigits(s, <<0, 0>>)

\* str::trim: white space off both ends
IsWhitespace(c) == c \in {" ", "\n", "\r", "\t"}
RECURSIVE TrimStart(_)
TrimStart(s) ==
    IF s # <<>> /\ IsWhitespace(Head(s)) THEN TrimStart(Tail(s)) ELSE s
RECURSIVE TrimEnd(_)
TrimEnd(s) ==
    IF s # <<>> /\ IsWhitespace(s[Len(s)]) THEN TrimEnd(SubSeq(s, 1, Len(s) - 1)) ELSE s
Trim(s) == TrimEnd(TrimStart(s))

\* the variant with Less and Greater exchanged
CmpSwapped(a, b) ==
    IF a[1] # b[1] THEN (IF a[1] < b[1] THEN "Greater" ELSE "Less")
    ELSE IF a[2] # b[2] THEN (IF a[2] < b[2] THEN "Greater" ELSE "Less")
    ELSE "Equal"

\* Ord::cmp on u32
Cmp(a, b) ==
    IF a[1] # b[1] THEN (IF a[1] < b[1] THEN "Less" ELSE "Greater")
    ELSE IF a[2] # b[2] THEN (IF a[2] < b[2] THEN "Less" ELSE "Greater")
    ELSE "Equal"

\* Display for u32: the decimal digits, most significant first
DivMod10(v) ==
    LET t == (v[1] % 10) * LimbBase + v[2]
    IN [quot |-> <<v[1] \div 10, t \div 10>>, rem |-> t % 10]
RECURSIVE FormatDigits(_)
FormatDigits(v) ==
    IF v = <<0, 0>> THEN <<>>
    ELSE Append(FormatDigits(DivMod10(v).quot), DecimalDigits[DivMod10(v).rem + 1])
FormatU32(v) == IF v = <<0, 0>> THEN <<"0">> ELSE FormatDigits(v)

(***************************************************************************)
(* guessing_game: the lines it prints and the lines the player may type.   *)
(***************************************************************************)
SecretMin == 1
SecretMax == 100

Banner == <<"Guess the number!">>
Prompt == <<"Please input your guess.">>
YouGuessed(v) == <<"You guessed: ">> \o FormatU32(v)
TooSmall == <<"Too small!">>
TooBig == <<"Too big!">>
YouWin == <<"You win!">>

U32MaxLine == <<"4", "2", "9", "4", "9", "6", "7", "2", "9", "5", "\n">>
U32OverflowLine == <<"4", "2", "9", "4", "9", "6", "7", "2", "9", "6", "\n">>
InputLines(secret) ==
    { FormatU32(ToU32(k)) \o <<"\n">> : k \in {secret - 1, secret, secret + 1} }
    \cup { <<" ">> \o FormatU32(ToU32(secret)) \o <<"\r", "\n">>,
           <<"+">> \o FormatU32(ToU32(secret)) \o <<"\n">>,
           <<"-">> \o FormatU32(ToU32(secret)) \o <<"\n">>,
           <<"a", "b", "c", "\n">>,
           <<"\n">>,
           <<>>,                       \* end of input: read_line leaves the buffer empty
           U32MaxLine,
           U32OverflowLine }

(***************************************************************************)
(* guessing_game: the process.                                             *)
(***************************************************************************)
EchorIdle ==
    /\ args = <<>>
    /\ state = "idle"
    /\ text = <<>>
    /\ omit_newline = FALSE
    /\ stdout = <<>>
    /\ stderr = <<>>
    /\ exit_status = None
    /\ stdout_writes = 0

InitGame ==
    /\ secret_number = 0
    /\ pc = "start"
    /\ guess_line = <<>>
    /\ guess = <<0, 0>>
    /\ out = <<>>
    /\ reads = 0
    /\ EchorIdle

\* lines 12-15: the banner, then the secret number
Start ==
    /\ pc = "start"
    /\ out' = Append(out, Banner)
    /\ secret_number' \in SecretMin..SecretMax
    /\ pc' = "prompt"
    /\ UNCHANGED <<guess_line, guess, reads>>
    /\ UNCHANGED evars

\* lines 21-26: the prompt, and a fresh buffer
PrintPrompt ==
    /\ pc = "prompt"
    /\ out' = Append(out, Prompt)
    /\ guess_line' = <<>>
    /\ pc' = "read"
    /\ UNCHANGED <<secret_number, guess, reads>>
    /\ UNCHANGED evars

\* lines 40-42: read_line returns Ok
ReadLine ==
    /\ pc = "read"
    /\ reads < MaxReads
    /\ \E line \in InputLines(secret_number) : guess_line' = guess_line \o line
    /\ reads' = reads + 1
    /\ pc' = "parse"
    /\ UNCHANGED <<secret_number, guess, out>>
    /\ UNCHANGED evars

\* lines 40-42: read_line returns Err and expect panics
ReadLineFails ==
    /\ pc = "read"
    /\ reads < MaxReads
    /\ reads' = reads + 1
    /\ pc' = "panicked"
    /\ UNCHANGED <<secret_number, guess_line, guess, out>>
    /\ UNCHANGED evars

\* lines 50-53, Err(_) => continue
ParseGuessErr ==
    /\ pc = "parse"
    /\ ParseU32(Trim(guess_line)) = None
    /\ pc' = "prompt"
    /\ UNCHANGED <<secret_number, guess_line, guess, out, reads>>
    /\ UNCHANGED evars

\* lines 50-55, Ok(num) => num, then "You guessed"
ParseGuessOk ==
    /\ pc = "parse"
    /\ ParseU32(Trim(guess_line)) # None
    /\ LET num == Unwrap(ParseU32(Trim(guess_line))) IN
          /\ guess' = num
          /\ out' = Append(out, YouGuessed(num))
    /\ pc' = "compare"
    /\ UNCHANGED <<secret_number, guess_line, reads>>
    /\ UNCHANGED evars

\* lines 62-70
CompareLess ==
    /\ pc = "compare"
    /\ Cmp(guess, ToU32(secret_number)) = "Less"
    /\ out' = Append(out, TooSmall)
    /\ pc' = "prompt"
    /\ UNCHANGED <<secret_number, guess_line, guess, reads>>
    /\ UNCHANGED evars

CompareGreater ==
    /\ pc = "compare"
    /\ Cmp(guess, ToU32(secret_number)) = "Greater"
    /\ out' = Append(out, TooBig)
    /\ pc' = "prompt"
    /\ UNCHANGED <<secret_number, guess_line, guess, reads>>
    /\ UNCHANGED evars

CompareEqual ==
    /\ pc = "compare"
    /\ Cmp(guess, ToU32(secret_number)) = "Equal"
    /\ out' = Append(out, YouWin)
    /\ pc' = "done"
    /\ UNCHANGED <<secret_number, guess_line, guess, reads>>
    /\ UNCHANGED evars

\* the steps the program takes by itself; ReadLine waits for the player
ProgramStep ==
    \/ Start \/ PrintPrompt \/ ParseGuessErr \/ ParseGuessOk
    \/ CompareLess \/ CompareGreater \/ CompareEqual

NextGame ==
    \/ Start \/ PrintPrompt \/ ReadLine \/ ReadLineFails
    \/ ParseGuessErr \/ ParseGuessOk
    \/ CompareLess \/ CompareGreater \/ CompareEqual

SpecGame == InitGame /\ [][NextGame]_vars

\* Where the program can take a step by itself: everywhere but at the read
\* and after the end.  At "parse" one of the two ParseGuess actions is
\* enabled, at "compare" one of the three Compare actions, and each changes
\* pc, so this is ENABLED <<ProgramStep>>_vars.
ProgramCanStep == pc \in {"start", "prompt", "parse", "compare"}

\* The process is never suspended for ever between two reads: weak fairness
\* of ProgramStep, WF_vars(ProgramStep), with its ENABLED written as the
\* state predicate above.
FairSpecGame ==
    SpecGame /\ ([]<>(~ProgramCanStep) \/ []<><<ProgramStep>>_vars)

(***************************************************************************)
(* echor: the vocabulary of the properties, stated on the argument list    *)
(* alone (none of it uses GetMatches).                                     *)
(***************************************************************************)
Usage == <<"U", "S", "A", "G", "E">>

IsUtf8(tok) == \A i \in 1..Len(tok) : tok[i] # InvalidByte
AllUtf8(a) == \A i \in 1..Len(a) : IsUtf8(a[i])

\* the newline-suppression flag, in its short or its long form
IsFlagToken(tok) == tok \in {TokN, TokOmitNewline}
IsDashToken(tok) == StartsWith(tok, <<"-">>) /\ tok # <<"-">>
IsTextSegment(tok) == IsUtf8(tok) /\ ~IsDashToken(tok)

TextOf(a) == SelectSeq(a, IsTextSegment)
FlagCount(a) == Len(SelectSeq(a, IsFlagToken))
\* the argument lists of the documented interface: text segments and the flag
PlainArgs(a) == \A i \in 1..Len(a) : IsTextSegment(a[i]) \/ IsFlagToken(a[i])

\* the index of the first "--", Len(a) + 1 when there is none
FirstDashDash(a) ==
    IF \E i \in 1..Len(a) : a[i] = TokDashDash
    THEN CHOOSE i \in 1..Len(a) :
            a[i] = TokDashDash /\ \A j \in 1..(i - 1) : a[j] # TokDashDash
    ELSE Len(a) + 1
\* the tokens that are positional: not dash-led, or behind the first "--"
PositionalIdx(a) ==
    {i \in 1..Len(a) : i > FirstDashDash(a) \/ ~IsDashToken(a[i])}
OptionIdx(a) ==
    {i \in 1..Len(a) : i < FirstDashDash(a) /\ IsDashToken(a[i])}
PositionalsOf(a) ==
    LET F[i \in 0..Len(a)] ==
            IF i = 0 THEN <<>>
            ELSE IF i \in PositionalIdx(a) THEN Append(F[i - 1], a[i])
            ELSE F[i - 1]
    IN F[Len(a)]

IsLongToken(tok) == StartsWith(tok, <<"-", "-">>) /\ tok # TokDashDash
IsShortToken(tok) == IsDashToken(tok) /\ ~StartsWith(tok, <<"-", "-">>)
LongNameOf(tok) == SubSeq(tok, 3, Len(tok))
AsksHelpOrVersion(tok) ==
    \/ IsLongToken(tok) /\ LongNameOf(tok) \in {LongHelp, LongVersion}
    \/ IsShortToken(tok) /\ \E i \in 2..Len(tok) : tok[i] \in {ShortHelp, ShortVersion}
IsKnownOption(tok) ==
    \/ IsLongToken(tok) /\ LongNameOf(tok) \in {LongOmitNewline, LongHelp, LongVersion}
    \/ IsShortToken(tok)
         /\ \A i \in 2..Len(tok) : tok[i] \in {ShortN, ShortHelp, ShortVersion}
FlagUses(tok) ==
    IF IsLongToken(tok) THEN (IF LongNameOf(tok) = LongOmitNewline THEN 1 ELSE 0)
    ELSE Cardinality({i \in 2..Len(tok) : tok[i] = ShortN})
HelpOrVersionAsked(a) == \E i \in OptionIdx(a) : AsksHelpOrVersion(a[i])
UnknownOption(a) == \E i \in OptionIdx(a) : ~IsKnownOption(a[i])
FlagRepeated(a) ==
    \E i, j \in OptionIdx(a) :
        \/ i # j /\ FlagUses(a[i]) > 0 /\ FlagUses(a[j]) > 0
        \/ FlagUses(a[i]) > 1

\* the segments joined by one space, built from the right
RECURSIVE SpaceJoined(_)
SpaceJoined(T) ==
    IF T = <<>> THEN <<>>
    ELSE IF Len(T) = 1 THEN T[1]
    ELSE SpaceJoined(SubSeq(T, 1, Len(T) - 1)) \o <<" ">> \o T[Len(T)]

Exited(status) == exit_status = Some(status)
FailedWithUsage ==
    /\ state = "Failed"
    /\ Contains(stderr, Usage)
    /\ exit_status # None /\ exit_status # Some(0)
    /\ stdout = <<>>

(***************************************************************************)
(* echor: the properties.                                                  *)
(***************************************************************************)

\* The argument lists of C1: a non-empty sequence T of text segments, alone
\* or followed by the newline-suppression flag.
C1_Case ==
    /\ PlainArgs(args)
    /\ TextOf(args) # <<>>
    /\ \/ FlagCount(args) = 0
       \/ FlagCount(args) = 1 /\ IsFlagToken(args[Len(args)])
\* C1: on such an argument list the run does not fail, and ends with stdout
\* = T joined by single spaces, one newline iff the flag is absent, status 0.
C1_EchoOutput ==
    C1_Case =>
        /\ state \in {"Parsing", "Emitting", "Done"}
        /\ state = "Done" =>
              /\ stdout = SpaceJoined(TextOf(args))
                            \o (IF FlagCount(args) = 1 THEN <<>> ELSE <<"\n">>)
              /\ Exited(0)
C1_Witness ==
    /\ C1_Case /\ state = "Done"
    /\ Len(TextOf(args)) = 2 /\ FlagCount(args) = 0
    /\ stdout = <<"a", " ", "b", " ", " ", "c", "\n">>

\* C2 as stated: every invocation with no positional text segment fails with
\* a message containing USAGE on stderr, a non-zero status and no stdout.
C2_NoTextFails ==
    (PositionalIdx(args) = {} /\ state # "Parsing") => FailedWithUsage
\* C2 as amended: the same for every invocation with no positional text
\* segment that does not ask for help or version.
C2_NoTextFailsUnlessHelp ==
    (PositionalIdx(args) = {} /\ ~HelpOrVersionAsked(args) /\ state # "Parsing")
        => FailedWithUsage
C2_Witness ==
    /\ args = <<TokN>> /\ FailedWithUsage

\* The argument lists of C3: a non-empty sequence T of text segments with -n
\* inserted at one position, before, between or after the segments.
C3_Case ==
    /\ Len(args) >= 2
    /\ \E p \in 1..Len(args) :
          /\ args[p] = TokN
          /\ \A i \in 1..Len(args) : i # p => IsTextSegment(args[i])
\* C3: wherever -n stands among the text segments T, the configuration is
\* text = T, omit_newline = TRUE, and the output is T joined, no newline.
C3_FlagPosition ==
    C3_Case =>
        /\ state \in {"Parsing", "Emitting", "Done"}
        /\ state # "Parsing" => text = TextOf(args) /\ omit_newline = TRUE
        /\ state = "Done" => stdout = SpaceJoined(TextOf(args))
C3_Witness ==
    /\ C3_Case /\ state = "Done"
    /\ Len(args) = 3 /\ args[2] = TokN

\* C4 as stated: an invocation fails only for want of positional text; every
\* argument list with a positional text segment succeeds; status 0 only
\* after the joined text was emitted.
C4_OnlyNoTextFails ==
    /\ state = "Failed" => PositionalIdx(args) = {}
    /\ (PositionalIdx(args) # {} /\ state # "Parsing") => state \in {"Emitting", "Done"}
    /\ Exited(0) => state = "Done"
\* C4 as amended: without a help or version request, an invocation fails
\* exactly when it has no positional text, or an option echor does not
\* define, or the flag more than once; status 0 comes only after the joined
\* text was emitted or the help or version text was displayed.
C4_FailureCauses ==
    /\ (~HelpOrVersionAsked(args) /\ state # "Parsing") =>
          /\ state = "Failed" <=>
                (PositionalIdx(args) = {} \/ UnknownOption(args) \/ FlagRepeated(args))
          /\ state # "Failed" => state \in {"Emitting", "Done"}
    /\ state = "Failed" => FailedWithUsage
    /\ Exited(0) =>
          \/ /\ state = "Done"
             /\ stdout = SpaceJoined(text) \o (IF omit_newline THEN <<>> ELSE <<"\n">>)
          \/ /\ state = "Displayed"
             /\ stdout \in {HelpMessage, VersionMessage}
C4_Witness ==
    /\ state = "Failed"
    /\ PositionalIdx(args) # {}
    /\ FlagRepeated(args) /\ ~UnknownOption(args) /\ ~HelpOrVersionAsked(args)

\* C5: past parsing, text holds at least one element; an invocation with no
\* positional argument never gets there, and the unwrap of line 40 never
\* meets None (the process never panics).
C5_TextNeverEmpty ==
    /\ state # "Panicked"
    /\ state \in {"Emitting", "Done"} => Len(text) >= 1 /\ PositionalIdx(args) # {}
C5_Witness ==
    /\ state = "Emitting" /\ Len(text) = 1 /\ omit_newline

\* C6 as stated: a run ends in one of two ways, emitted (status 0, one write
\* to stdout) or failed (non-zero status, nothing on stdout).
C6_TwoOutcomes ==
    /\ state \in {"Parsing", "Emitting", "Done", "Failed"}
    /\ state = "Failed" => stdout = <<>> /\ stdout_writes = 0 /\ ~Exited(0)
    /\ state = "Done" => stdout_writes = 1 /\ Exited(0)
\* C6 as amended: a run goes from Parsing to exactly one of Emitting, Failed
\* or Displayed (help or version on stdout, status 0, no configuration);
\* Emitting goes to Done by one write that leaves the configuration as it
\* was; Done, Failed and Displayed are terminal; a failed run wrote nothing
\* to stdout and no run both emits and exits non-zero.
C6_StateInv ==
    /\ state \in {"Parsing", "Emitting", "Done", "Failed", "Displayed"}
    /\ state = "Parsing" => stdout_writes = 0 /\ exit_status = None
    /\ state = "Emitting" => stdout_writes = 0 /\ exit_status = None
    /\ state = "Done" => stdout_writes = 1 /\ Exited(0)
    /\ state = "Failed" =>
          stdout = <<>> /\ stdout_writes = 0 /\ exit_status # None /\ ~Exited(0)
    /\ state = "Displayed" =>
          /\ text = <<>> /\ Exited(0) /\ stdout_writes = 1
          /\ stdout \in {HelpMessage, VersionMessage}
C6_Step ==
    \/ /\ state = "Parsing"
       /\ state' \in {"Emitting", "Failed", "Displayed"}
    \/ /\ state = "Emitting"
       /\ state' = "Done"
       /\ text' = text /\ omit_newline' = omit_newline
       /\ stdout_writes' = stdout_writes + 1
\* C6 as amended: the states obey C6_StateInv and every step is a C6_Step
\* (Parsing to one of three outcomes, Emitting to Done by one write).
C6_Lifecycle == [](C6_StateInv) /\ [][C6_Step]_vars
C6_Witness ==
    /\ state = "Displayed" /\ stdout = VersionMessage /\ Len(args) = 2

\* C7 as stated: for every list of text segments and flags with at least one
\* text segment, parsing succeeds, omit_newline is TRUE exactly when the
\* flag is present in either form, and every text segment, the one after
\* the flag too, is kept.
C7_FlagForms ==
    (PlainArgs(args) /\ TextOf(args) # <<>> /\ state # "Parsing") =>
        /\ state \in {"Emitting", "Done"}
        /\ omit_newline = (FlagCount(args) >= 1)
        /\ text = TextOf(args)
\* C7 as amended: the same for every such list that holds the flag at most
\* once; the output is the text segments joined, the newline present
\* exactly when the flag is absent.
C7_Case ==
    PlainArgs(args) /\ TextOf(args) # <<>> /\ FlagCount(args) <= 1
\* C7 as amended: with the flag at most once, in either form, omit_newline
\* is TRUE exactly when it is present and every text segment is kept.
C7_FlagFormsOnce ==
    (C7_Case /\ state # "Parsing") =>
        /\ state \in {"Emitting", "Done"}
        /\ omit_newline = (FlagCount(args) = 1)
        /\ text = TextOf(args)
        /\ state = "Done" =>
              stdout = SpaceJoined(TextOf(args))
                          \o (IF FlagCount(args) = 1 THEN <<>> ELSE <<"\n">>)
C7_Witness ==
    /\ C7_Case /\ state = "Done"
    /\ Len(args) = 2 /\ args[1] = TokOmitNewline
    /\ stdout = args[2]

\* C8 as stated: the text segments are the argument tokens with the flag
\* tokens removed, in order and verbatim.
NotFlagToken(tok) == ~IsFlagToken(tok)
\* C8 as stated: past parsing, text is the argument list without its flag
\* tokens, in order and verbatim.
C8_AllButFlags ==
    (AllUtf8(args) /\ state \in {"Emitting", "Done"}) =>
        text = SelectSeq(args, NotFlagToken)
\* C8 as amended: the text segments are, in order and verbatim, the tokens
\* that are not dash-led (a lone "-" is text) or that stand behind the first
\* "--"; what is left out is that "--" and the flag, given at most once.
C8_Positionals ==
    (AllUtf8(args) /\ state \in {"Emitting", "Done"}) =>
        /\ text = PositionalsOf(args)
        /\ \A i \in 1..Len(args) :
              i \notin PositionalIdx(args) =>
                  (i = FirstDashDash(args) \/ IsFlagToken(args[i]))
        /\ Cardinality({i \in OptionIdx(args) : IsFlagToken(args[i])}) <= 1
C8_Witness ==
    /\ state = "Done"
    /\ args = <<TokDashDash, TokN, <<"b", " ", " ", "c">> >>
    /\ text = <<TokN, <<"b", " ", " ", "c">> >>

(***************************************************************************)
(* guessing_game: the vocabulary of the properties.                        *)
(***************************************************************************)
Verdicts == {TooSmall, TooBig, YouWin}
CountLines(lines, S) == Cardinality({i \in 1..Len(lines) : lines[i] \in S})
IsGuessedLine(l) == l # <<>> /\ l[1] = "You guessed: "
CountGuessed(lines) == Cardinality({i \in 1..Len(lines) : IsGuessedLine(lines[i])})
Printed(l) == \E i \in 1..Len(out) : out[i] = l

\* the secret as a u32; it is below 2^16
SecretU32 == <<0, secret_number>>
\* the verdict the comparison of guess with the secret calls for
ExpectedVerdict ==
    IF guess[1] > 0 \/ guess[2] > secret_number THEN TooBig
    ELSE IF guess[2] < secret_number THEN TooSmall
    ELSE YouWin
LineParses == ParseU32(Trim(guess_line)) # None

\* lines that are no u32: text, a negative number, an empty line, the end of
\* input, a number above 2^32 - 1
InvalidExamples ==
    { <<"a", "b", "c", "\n">>,
      <<"-">> \o FormatU32(SecretU32) \o <<"\n">>,
      <<"\n">>,
      <<>>,
      U32OverflowLine }

(***************************************************************************)
(* guessing_game: the properties.                                          *)
(***************************************************************************)

\* C9: the secret is chosen once in 1..100 and never changes; every line
\* that parses is compared and gets exactly one verdict, the one the
\* comparison with the secret calls for; the loop is left only on a guess
\* equal to the secret; "You win!" is printed at most once and is the last
\* line; once a line equal to the secret was read, the game terminates.
C9_Inv ==
    /\ pc # "start" => secret_number \in 1..100
    /\ CountLines(out, {YouWin}) <= 1
    /\ Printed(YouWin) <=> pc = "done"
    /\ pc = "done" => out[Len(out)] = YouWin /\ guess = SecretU32
    /\ CountLines(out, Verdicts) + (IF pc = "compare" THEN 1 ELSE 0) = CountGuessed(out)
C9_Step ==
    /\ pc # "start" => secret_number' = secret_number
    /\ pc # "done"
    /\ (pc = "parse" /\ LineParses) => pc' = "compare"
    /\ pc = "compare" => out' = Append(out, ExpectedVerdict)
    /\ pc' = "done" => pc = "compare" /\ guess = SecretU32
C9_Live ==
    (pc = "parse" /\ ParseU32(Trim(guess_line)) = Some(SecretU32)) ~> (pc = "done")
\* C9: the states obey C9_Inv, every step is a C9_Step, and a line equal to
\* the secret leads to the end of the game.
C9_GuessingGame == [](C9_Inv) /\ [][C9_Step]_vars /\ C9_Live
C9_Witness ==
    /\ pc = "done" /\ reads = 2
    /\ Printed(TooSmall)
    /\ guess_line = <<"+">> \o FormatU32(SecretU32) \o <<"\n">>

\* C10: a line that does not parse as a u32 after trimming is skipped: no
\* "You guessed" line and no verdict are printed for it, the secret stays,
\* and the next step is a new prompt; the game ends, and reports a win,
\* only on a line that parses, so never after invalid lines alone.
C10_Inv ==
    /\ (pc = "parse" /\ guess_line \in InvalidExamples) => ~LineParses
    /\ (pc = "done" \/ Printed(YouWin)) => LineParses /\ CountGuessed(out) >= 1
    /\ CountGuessed(out) = 0 => pc # "done" /\ CountLines(out, Verdicts) = 0
C10_Step ==
    /\ (pc = "parse" /\ (~LineParses \/ guess_line \in InvalidExamples)) =>
          /\ pc' = "prompt"
          /\ out' = out
          /\ secret_number' = secret_number
    /\ pc = "prompt" => out' = Append(out, Prompt) /\ pc' = "read"
\* C10: the states obey C10_Inv and every step is a C10_Step: an invalid
\* line is skipped, prints nothing and ends nothing.
C10_InvalidSkipped == [](C10_Inv) /\ [][C10_Step]_vars
C10_Witness ==
    /\ pc = "prompt" /\ reads = 2
    /\ out = <<Banner, Prompt, Prompt>>

====
